---- MODULE Spec2Model ----
(***************************************************************************)
(* A model of et::Either<S, E> (include/et/either.hpp): the tagged union   *)
(* detail::Storage, the public two-sided Either built on it, and the       *)
(* operations a program can apply to a handful of Either objects.          *)
(*                                                                         *)
(* The class is a template, so which member functions a call reaches is    *)
(* decided by overload resolution in each instantiation.  Two              *)
(* instantiations are modelled, chosen once in Init:                       *)
(*   "trivial"     both payloads trivially copyable and destructible, as   *)
(*                 Either<std::int32_t, char> of the tests and example.    *)
(*                 Base is Storage<S, E, true>.  The copy/move members of  *)
(*                 Either and Storage written in the header are templates, *)
(*                 hence never copy/move special members; the implicitly   *)
(*                 declared (memberwise) ones exist and win overload       *)
(*                 resolution against the templates.                       *)
(*   "nontrivial"  payloads with user-provided copy/move/destructor, as    *)
(*                 std::string of the move tests.  Base is                 *)
(*                 Storage<S, E, false>.  Its implicit copy members are    *)
(*                 deleted (union with non-trivial members), so copy       *)
(*                 construction, copy assignment and move assignment of    *)
(*                 Either are ill-formed; move construction goes through   *)
(*                 the implicit Either move constructor into the           *)
(*                 constructor template Storage(Storage&&).                *)
(***************************************************************************)
EXTENDS Integers, FiniteSets, Sequences, TLC

\* ---- bounds of the model ----
NumInst == 2          \* number of Either objects a program juggles
MaxVal == 1           \* payload values are 0..MaxVal

Inst == 1..NumInst
Values == 0..MaxVal

\* The content of a union member that nothing can read before the member is
\* written again: indeterminate bytes (a member never initialised, the view of
\* the bytes of the other member, a moved-from payload).  TagNamesValue below
\* checks that no accessor ever returns it.
Indet == MaxVal + 1
Cell == Values \cup {Indet}

\* ---- enum class StorageState (either.hpp:82) ----
kEmpty == "kEmpty"
kHasError == "kHasError"
kHasSuccess == "kHasSuccess"
StorageState == {kEmpty, kHasError, kHasSuccess}

Kinds == {"trivial", "nontrivial"}

VARIABLES
  kind,       \* the instantiation: "trivial" or "nontrivial" payload types
  alive,      \* alive[i]: the Either object i exists (constructed, not destroyed)
  obj,        \* obj[i]: the Storage fields of object i
  last,       \* the operation executed last, its operands and what it returned
  consumed,   \* consumed[i]: i was read destructively and not reassigned since
  usucc,      \* a named Unit-success, Either<S, void>
  uerr,       \* a named Unit-error, Either<void, E>
  pc          \* "run", or "terminated" after std::terminate

vars == <<kind, alive, obj, last, consumed, usucc, uerr, pc>>

\* A Storage: the discriminant, the two views of the union, and (ghost) whether
\* a constructed, not yet destructed payload object lives in each member.
\* The members of the union share their bytes: a write to one leaves the other
\* with an unspecified value.
StorageRec == [state_ : StorageState, succ_val_ : Cell, err_val_ : Cell,
               succ_obj : BOOLEAN, err_obj : BOOLEAN]

\* the fields of an object that does not exist
NoStorage == [state_ |-> kEmpty, succ_val_ |-> Indet, err_val_ |-> Indet,
              succ_obj |-> FALSE, err_obj |-> FALSE]

\* last: op the operation, dst/src its operands (0: none), raised/val what an
\* accessor returned (or the value passed in), out the outcome of a comparison or
\* the member a destructor ran on, pre the discriminant the source of a transfer
\* (or the object destroyed, assigned to or streamed) had before the operation,
\* text the characters a stream insertion emitted.  Three ghost fields tell
\* how the operation put a payload into a member of the destination: write is
\* "construct" (a member initialiser), "assign" (operator= of the payload type
\* on the member), "bytes" (the memberwise copy of an implicit copy/move of the
\* whole union) or "none"; slot, the member written held a constructed payload
\* before; tagged, the discriminant of the destination named that member
\* before.  Two ghost fields tell
\* what the operation did to payload lifetimes: lost, a constructed payload had
\* its bytes overwritten or released without its destructor having run; noobj,
\* a payload destructor ran on a member holding no constructed payload.
NoOp ==
  [op |-> "none", dst |-> 0, src |-> 0, raised |-> FALSE, val |-> 0,
   out |-> "none", pre |-> "none", text |-> <<>>, lost |-> FALSE, noobj |-> FALSE,
   write |-> "none", slot |-> FALSE, tagged |-> FALSE]

Op(name, d, s, r, v, o, p) ==
  [op |-> name, dst |-> d, src |-> s, raised |-> r, val |-> v, out |-> o, pre |-> p,
   text |-> <<>>, lost |-> FALSE, noobj |-> FALSE,
   write |-> "none", slot |-> FALSE, tagged |-> FALSE]

\* l, with the way the operation wrote the payload
Wrote(l, how, constructed, named) ==
  [l EXCEPT !.write = how, !.slot = constructed, !.tagged = named]

\* ------------------------------------------------------------------------
\* detail::Storage
\* ------------------------------------------------------------------------

\* Storage(SuccessTagType, SuccessType const& / &&): state_(kHasSuccess),
\* succ_val_(succ_val).  The success member is constructed; the error view of
\* the shared bytes is unspecified.
StorageSuccessTag(s) ==
  [state_ |-> kHasSuccess, succ_val_ |-> s, err_val_ |-> Indet,
   succ_obj |-> TRUE, err_obj |-> FALSE]

\* Storage(ErrorTagType, ErrorType const& / &&): state_(kHasError), err_val_(err_val).
StorageErrorTag(e) ==
  [state_ |-> kHasError, succ_val_ |-> Indet, err_val_ |-> e,
   succ_obj |-> FALSE, err_obj |-> TRUE]

\* The implicitly declared copy/move constructor and copy/move assignment of
\* Storage<S, E, true> (no user-declared special member: the members at
\* either.hpp:93-120 are templates).  Memberwise: state_ and the bytes of the
\* union are copied, the source is not touched.
StorageImplicitCopy(that) == that

\* template constructor Storage<S, E, false>::Storage(Storage&& that):
\*   state_ = that.state_;
\*   if (state_ == kHasSuccess) { succ_val_ = std::move(that.succ_val_); that.state_ = kEmpty; }
\*   else if (state_ == kHasError) { err_val_ = std::move(that.err_val_); that.state_ = kEmpty; }
\* No member of the union is constructed: the payload is move-ASSIGNED into the
\* raw member.  The moved-from payload stays a constructed object of that, with
\* an unspecified value; the member of this that is not written (both members
\* when that is kEmpty) is never initialised.
StorageMoveCtor(that) ==
  IF that.state_ = kHasSuccess
  THEN [self |-> [state_ |-> kHasSuccess, succ_val_ |-> that.succ_val_, err_val_ |-> Indet,
                  succ_obj |-> FALSE, err_obj |-> FALSE],
        that |-> [that EXCEPT !.state_ = kEmpty, !.succ_val_ = Indet]]
  ELSE IF that.state_ = kHasError
  THEN [self |-> [state_ |-> kHasError, succ_val_ |-> Indet, err_val_ |-> that.err_val_,
                  succ_obj |-> FALSE, err_obj |-> FALSE],
        that |-> [that EXCEPT !.state_ = kEmpty, !.err_val_ = Indet]]
  ELSE [self |-> [state_ |-> kEmpty, succ_val_ |-> Indet, err_val_ |-> Indet,
                  succ_obj |-> FALSE, err_obj |-> FALSE],
        that |-> that]

\* mutant: a destructor that knows no kEmpty
StorageDtor_TwoState(self) ==
  IF self.state_ = kHasError THEN "err_val_" ELSE "succ_val_"

\* Storage<S, E, false>::~Storage(): the member whose destructor it runs.
StorageDtor(self) ==
  IF self.state_ = kHasSuccess THEN "succ_val_"
  ELSE IF self.state_ = kHasError THEN "err_val_"
  ELSE "none"

\* ------------------------------------------------------------------------
\* Either<S, E>: queries and accessors
\* ------------------------------------------------------------------------

\* Either::IsSuccess() const
IsSuccess(self) == self.state_ = kHasSuccess

\* mutant: a two-state query, everything that is not a success is an error
IsError_NotSuccess(self) == self.state_ # kHasSuccess

\* Either::IsError() const
IsError(self) == self.state_ = kHasError

\* Either::operator bool() const
OperatorBool(self) == IsSuccess(self)

Returned(v) == [raised |-> FALSE, val |-> v]
\* throw BadEitherAccess(...)
BadEitherAccess == [raised |-> TRUE, val |-> 0]

\* mutant: an accessor that does not look at the discriminant
SuccessConstRef_Unchecked(self) == Returned(self.succ_val_)

\* Either::Success() const&
SuccessConstRef(self) ==
  IF self.state_ = kHasSuccess THEN Returned(self.succ_val_) ELSE BadEitherAccess

\* Either::Error() const&
ErrorConstRef(self) ==
  IF self.state_ = kHasError THEN Returned(self.err_val_) ELSE BadEitherAccess

\* mutant: the destructive read forgets to empty the object
SuccessRvalue_KeepsTag(self) ==
  IF self.state_ = kHasSuccess
  THEN [raised |-> FALSE, val |-> self.succ_val_, self |-> self]
  ELSE [raised |-> TRUE, val |-> 0, self |-> self]

\* mutant: the refusing branch sets the discriminant the caller asked for
SuccessRvalue_Restores(self) ==
  IF self.state_ = kHasSuccess
  THEN [raised |-> FALSE, val |-> self.succ_val_, self |-> [self EXCEPT !.state_ = kEmpty]]
  ELSE [raised |-> TRUE, val |-> 0, self |-> [self EXCEPT !.state_ = kHasSuccess]]

\* mutant: the discriminant is cleared before it is tested
SuccessRvalue_ClearsFirst(self) ==
  IF self.state_ = kHasSuccess
  THEN [raised |-> FALSE, val |-> self.succ_val_, self |-> [self EXCEPT !.state_ = kEmpty]]
  ELSE [raised |-> TRUE, val |-> 0, self |-> [self EXCEPT !.state_ = kEmpty]]

\* Either::Success() &&: the result and the object afterwards
SuccessRvalue(self) ==
  IF self.state_ = kHasSuccess
  THEN [raised |-> FALSE, val |-> self.succ_val_, self |-> [self EXCEPT !.state_ = kEmpty]]
  ELSE [raised |-> TRUE, val |-> 0, self |-> self]

\* Either::Error() &&
ErrorRvalue(self) ==
  IF self.state_ = kHasError
  THEN [raised |-> FALSE, val |-> self.err_val_, self |-> [self EXCEPT !.state_ = kEmpty]]
  ELSE [raised |-> TRUE, val |-> 0, self |-> self]

\* ------------------------------------------------------------------------
\* Either<S, E>: conversion constructors and conversion assignment
\* ------------------------------------------------------------------------

\* mutant: the conversion constructor picks the error tag
EitherFromUnitSuccess_AsError(s) == StorageErrorTag(s)

\* Either(Either<SuccessType, void> const& that): Base(SuccessTag, that.Success())
\* Either(Either<SuccessType, void>&& that):
\*   Base(SuccessTag, static_cast<Either<SuccessType, void>>(that).Success())
\* (the cast copies that into a temporary, whose payload is moved in).
EitherFromUnitSuccess(s) == StorageSuccessTag(s)

\* Either(Either<void, ErrorType> const& that) / Either(Either<void, ErrorType>&& that)
EitherFromUnitError(e) == StorageErrorTag(e)

\* A write to succ_val_ by assignment.  With trivial payloads the assignment
\* starts the lifetime of the member; with class payloads it is a call of
\* S::operator= on whatever the member holds, and no object is constructed.
\* Either way the bytes of an error payload that lived there are overwritten:
\* g is what the error view of the new bytes reads.
AssignSuccVal(self, s, g, k) ==
  [self EXCEPT !.succ_val_ = s, !.err_val_ = g,
               !.succ_obj = IF k = "trivial" THEN TRUE ELSE self.succ_obj,
               !.err_obj = FALSE]

\* operator=(Either<SuccessType, void> const& that):
\*   this->state_ = kHasSuccess; this->succ_val_ = that.Success();
AssignUnitSuccessCopy(self, s, k) ==
  AssignSuccVal([self EXCEPT !.state_ = kHasSuccess], s, Indet, k)

\* mutant: the move form leaves the discriminant kEmpty
AssignUnitSuccessMove_Empties(self, s, g, k) ==
  AssignSuccVal([self EXCEPT !.state_ = kEmpty], s, g, k)

\* operator=(Either<SuccessType, void>&& that):
\*   this->state_ = kHasError; this->succ_val_ = std::move(...(that).Success());
AssignUnitSuccessMove(self, s, g, k) ==
  AssignSuccVal([self EXCEPT !.state_ = kHasError], s, g, k)

\* e = <Unit-error>.  The two operator=(Either<void, ErrorType> ...) templates
\* (either.hpp:446-469) declare std::enable_if_t<...> as a non-type template
\* parameter without a default, so they are never viable.  In the trivial
\* instantiation the assignment converts the operand with the conversion
\* constructor and assigns the temporary with the implicit move assignment.
AssignUnitError(self, e) == StorageImplicitCopy(EitherFromUnitError(e))

\* ------------------------------------------------------------------------
\* comparison
\* ------------------------------------------------------------------------
BoolStr(b) == IF b THEN "true" ELSE "false"

\* mutant: the error branch compares rhs with itself
OpEq_RhsTwice(lhs, rhs) ==
  IF IsSuccess(lhs) /\ IsSuccess(rhs)
  THEN BoolStr(lhs.succ_val_ = rhs.succ_val_)
  ELSE IF IsError(lhs) = IsError(rhs)
  THEN LET r == ErrorConstRef(rhs)
       IN  IF r.raised THEN "terminate" ELSE BoolStr(r.val = r.val)
  ELSE "false"

\* bool operator==(Either<S, E> const& lhs, Either<S, E> const& rhs) noexcept.
\* An accessor that throws inside the noexcept function ends the program
\* (std::terminate): outcome "terminate".
OpEq(lhs, rhs) ==
  IF IsSuccess(lhs) /\ IsSuccess(rhs)
  THEN LET l == SuccessConstRef(lhs)
           r == SuccessConstRef(rhs)
       IN  IF l.raised \/ r.raised THEN "terminate" ELSE BoolStr(l.val = r.val)
  ELSE IF IsError(lhs) = IsError(rhs)
  THEN LET l == ErrorConstRef(lhs)
           r == ErrorConstRef(rhs)
       IN  IF l.raised \/ r.raised THEN "terminate" ELSE BoolStr(l.val = r.val)
  ELSE "false"

\* bool operator!=(lhs, rhs) noexcept: return !(lhs == rhs);
OpNe(lhs, rhs) ==
  LET eq == OpEq(lhs, rhs)
  IN  IF eq = "terminate" THEN "terminate" ELSE BoolStr(eq = "false")

\* ------------------------------------------------------------------------
\* rendering
\* ------------------------------------------------------------------------

\* os << e.Success() with SuccessType std::int32_t: the decimal digits of the
\* value, as character codes
RECURSIVE PrintInt(_)
PrintInt(n) ==
  IF n < 10 THEN <<48 + n>> ELSE Append(PrintInt(n \div 10), 48 + (n % 10))

\* os << e.Error() with ErrorType char: the character itself
PrintChar(c) == <<c>>

Emitted(txt) == [raised |-> FALSE, text |-> txt]
\* BadEitherAccess leaves operator<<: nothing was written to the stream
NotEmitted == [raised |-> TRUE, text |-> <<>>]

\* mutant: the stream insertion never looks at the side held
StreamInsert_SuccessOnly(e) ==
  LET r == SuccessConstRef(e)
  IN  IF r.raised THEN NotEmitted ELSE Emitted(PrintInt(r.val))

\* std::ostream& operator<<(std::ostream& os, Either<S, E> const& e):
\*   if (e) return os << e.Success(); else return os << e.Error();
StreamInsert(e) ==
  IF OperatorBool(e)
  THEN LET r == SuccessConstRef(e)
       IN  IF r.raised THEN NotEmitted ELSE Emitted(PrintInt(r.val))
  ELSE LET r == ErrorConstRef(e)
       IN  IF r.raised THEN NotEmitted ELSE Emitted(PrintChar(r.val))

\* ------------------------------------------------------------------------
\* the Unit forms Either<S, void> and Either<void, E>
\* ------------------------------------------------------------------------
UnitSuccessRec == [alive : BOOLEAN, succ_val_ : Cell]
UnitErrorRec == [alive : BOOLEAN, err_val_ : Cell]

\* a Unit form that does not exist
NoUnitSuccess == [alive |-> FALSE, succ_val_ |-> Indet]
NoUnitError == [alive |-> FALSE, err_val_ |-> Indet]

\* explicit Either<S, void>(SuccessType const&) / (SuccessType&&), et::Success(s)
UnitSuccessCtor(s) == [alive |-> TRUE, succ_val_ |-> s]

\* explicit Either<void, E>(ErrorType const&) / (ErrorType&&), et::Error(e)
UnitErrorCtor(e) == [alive |-> TRUE, err_val_ |-> e]

\* mutant: the query of the other Unit form, pasted
UnitSuccess_IsSuccess_Pasted(u) == FALSE

\* Either<S, void>::IsSuccess / IsError / operator bool: constants
UnitSuccess_IsSuccess(u) == TRUE
UnitSuccess_IsError(u) == FALSE
UnitSuccess_OperatorBool(u) == TRUE

\* Either<S, void>::Success() const& / && / const&&: return succ_val_ (by
\* const reference, or as an rvalue reference the caller may move from)
UnitSuccess_Success(u) == Returned(u.succ_val_)

\* mutant: the absent side answers with the bytes of the payload
UnitSuccess_Error_Punned(u) == Returned(u.succ_val_)

\* Either<S, void>::Error() const: throw BadEitherAccess
UnitSuccess_Error(u) == BadEitherAccess

\* Either<void, E>::IsSuccess / IsError
UnitError_IsSuccess(u) == FALSE
UnitError_IsError(u) == TRUE

\* mutant: the conversion of the other Unit form, pasted
UnitError_OperatorBool_Pasted(u) == TRUE

\* Either<void, E>::operator bool
UnitError_OperatorBool(u) == FALSE

\* Either<void, E>::Success() const: throw BadEitherAccess
UnitError_Success(u) == BadEitherAccess

\* Either<void, E>::Error() const& / && / const&&: return err_val_
UnitError_Error(u) == Returned(u.err_val_)

\* bool operator==(Either<S, void> const& lhs, Either<S, void> const& rhs):
\*   return lhs.Success() == rhs.Success();
UnitSuccess_OpEq(lhs, rhs) ==
  UnitSuccess_Success(lhs).val = UnitSuccess_Success(rhs).val

\* bool operator==(Either<void, E> const& lhs, Either<void, E> const& rhs):
\*   return rhs.Error() == rhs.Error();
UnitError_OpEq(lhs, rhs) ==
  UnitError_Error(rhs).val = UnitError_Error(rhs).val

\* bool operator==(Either<S, void> const& lhs, Either<void, E> const& rhs):
\*   return false;
UnitMixed_OpEq(lhs, rhs) == FALSE

\* <Unit-error> == <Unit-success>: no operator== template takes the operands
\* in this order; both convert to bool and the built-in comparison is used.
UnitMixedReversed_OpEq(lhs, rhs) ==
  UnitError_OperatorBool(lhs) = UnitSuccess_OperatorBool(rhs)

\* the payload the discriminant names (Indet when there is none)
LivePayload(self) ==
  IF self.state_ = kHasSuccess THEN self.succ_val_
  ELSE IF self.state_ = kHasError THEN self.err_val_
  ELSE Indet

\* ------------------------------------------------------------------------
\* The program: operations on the objects 1..NumInst
\* ------------------------------------------------------------------------
Init ==
  /\ kind \in Kinds
  /\ alive = [i \in Inst |-> FALSE]
  /\ obj = [i \in Inst |-> NoStorage]
  /\ last = NoOp
  /\ consumed = [i \in Inst |-> FALSE]
  /\ usucc = NoUnitSuccess
  /\ uerr = NoUnitError
  /\ pc = "run"

\* Either<S, E> i(u) or Either<S, E> i(et::Success(s)): u a Unit-success holding s.
\* The const& and the && conversion constructor build the same Storage.
WidenSuccess(i, s) ==
  /\ pc = "run" /\ ~alive[i]
  /\ alive' = [alive EXCEPT ![i] = TRUE]
  /\ obj' = [obj EXCEPT ![i] = EitherFromUnitSuccess(s)]
  /\ last' = Wrote(Op("WidenSuccess", i, 0, FALSE, s, "none", "none"),
                   "construct", FALSE, FALSE)
  /\ UNCHANGED <<kind, usucc, uerr, consumed, pc>>

\* Either<S, E> i(et::Error(e))
WidenError(i, e) ==
  /\ pc = "run" /\ ~alive[i]
  /\ alive' = [alive EXCEPT ![i] = TRUE]
  /\ obj' = [obj EXCEPT ![i] = EitherFromUnitError(e)]
  /\ last' = Wrote(Op("WidenError", i, 0, FALSE, e, "none", "none"),
                   "construct", FALSE, FALSE)
  /\ UNCHANGED <<kind, usucc, uerr, consumed, pc>>

\* Either i(j): the implicit copy constructor of Either (trivial payloads only;
\* deleted otherwise), which copies the Storage base memberwise.
CopyCtor(i, j) ==
  /\ pc = "run" /\ kind = "trivial" /\ ~alive[i] /\ alive[j]
  /\ alive' = [alive EXCEPT ![i] = TRUE]
  /\ obj' = [obj EXCEPT ![i] = StorageImplicitCopy(obj[j])]
  /\ last' = Wrote(Op("CopyCtor", i, j, FALSE, LivePayload(obj[j]), "none", obj[j].state_),
                   "bytes", FALSE, FALSE)
  /\ UNCHANGED <<kind, usucc, uerr, consumed, pc>>

\* Either i(std::move(j)): the implicit move constructor of Either.  Its base
\* is moved by the implicit (memberwise) move constructor of Storage<S, E, true>
\* or by the constructor template Storage<S, E, false>::Storage(Storage&&).
MoveCtor(i, j) ==
  /\ pc = "run" /\ ~alive[i] /\ alive[j]
  /\ alive' = [alive EXCEPT ![i] = TRUE]
  /\ obj' = IF kind = "trivial"
            THEN [obj EXCEPT ![i] = StorageImplicitCopy(obj[j])]
            ELSE LET m == StorageMoveCtor(obj[j])
                 IN  [obj EXCEPT ![i] = m.self, ![j] = m.that]
  /\ last' = Wrote(Op("MoveCtor", i, j, FALSE, LivePayload(obj[j]), "none", obj[j].state_),
                   IF kind = "trivial" THEN "bytes"
                   ELSE IF obj[j].state_ = kEmpty THEN "none" ELSE "assign",
                   FALSE, FALSE)
  /\ UNCHANGED <<kind, usucc, uerr, consumed, pc>>

\* mutant: the assignment lands in a temporary copy of the base, as
\* static_cast<Base>(*this) = ... would have it; *this keeps what it held
CopyAssign_ToTemporary(i, j) ==
  /\ pc = "run" /\ kind = "trivial" /\ alive[i] /\ alive[j]
  /\ obj' = obj
  /\ consumed' = [consumed EXCEPT ![i] = FALSE]
  /\ last' = Wrote(Op("CopyAssign", i, j, FALSE, LivePayload(obj[j]), "none", obj[j].state_),
                   "bytes", FALSE, FALSE)
  /\ UNCHANGED <<kind, usucc, uerr, alive, pc>>

\* i = j: the implicit copy assignment of Either (trivial payloads only)
CopyAssign(i, j) ==
  /\ pc = "run" /\ kind = "trivial" /\ alive[i] /\ alive[j]
  /\ obj' = [obj EXCEPT ![i] = StorageImplicitCopy(obj[j])]
  /\ consumed' = [consumed EXCEPT ![i] = FALSE]
  /\ last' = Wrote(Op("CopyAssign", i, j, FALSE, LivePayload(obj[j]), "none", obj[j].state_),
                   "bytes", FALSE, FALSE)
  /\ UNCHANGED <<kind, usucc, uerr, alive, pc>>

\* i = std::move(j): the implicit move assignment of Either (trivial payloads only)
MoveAssign(i, j) ==
  /\ pc = "run" /\ kind = "trivial" /\ alive[i] /\ alive[j]
  /\ obj' = [obj EXCEPT ![i] = StorageImplicitCopy(obj[j])]
  /\ consumed' = [consumed EXCEPT ![i] = FALSE]
  /\ last' = Wrote(Op("MoveAssign", i, j, FALSE, LivePayload(obj[j]), "none", obj[j].state_),
                   "bytes", FALSE, FALSE)
  /\ UNCHANGED <<kind, usucc, uerr, alive, pc>>

\* mutant: the payload is streamed through the ownership-transferring accessor
CallStreamInsert_Consuming(i) ==
  /\ pc = "run" /\ alive[i]
  /\ LET r == StreamInsert(obj[i])
     IN  last' = [Op("StreamInsert", i, 0, r.raised, 0, "none", obj[i].state_)
                  EXCEPT !.text = r.text]
  /\ obj' = [obj EXCEPT ![i] = IF OperatorBool(obj[i]) THEN SuccessRvalue(obj[i]).self
                                                       ELSE ErrorRvalue(obj[i]).self]
  /\ UNCHANGED <<kind, usucc, uerr, alive, consumed, pc>>

\* os << i; the caller catches BadEitherAccess
CallStreamInsert(i) ==
  /\ pc = "run" /\ alive[i]
  /\ LET r == StreamInsert(obj[i])
     IN  last' = [Op("StreamInsert", i, 0, r.raised, 0, "none", obj[i].state_)
                  EXCEPT !.text = r.text]
  /\ UNCHANGED <<kind, usucc, uerr, alive, obj, consumed, pc>>

\* i = u, u an lvalue Unit-success holding s
AssignSuccessCopy(i, s) ==
  /\ pc = "run" /\ alive[i]
  /\ obj' = [obj EXCEPT ![i] = AssignUnitSuccessCopy(obj[i], s, kind)]
  /\ consumed' = [consumed EXCEPT ![i] = FALSE]
  /\ last' = [Wrote(Op("AssignSuccessCopy", i, 0, FALSE, s, "none", obj[i].state_),
                    "assign", obj[i].succ_obj, obj[i].state_ = kHasSuccess)
              EXCEPT !.lost = (kind = "nontrivial" /\ obj[i].err_obj)]
  /\ UNCHANGED <<kind, usucc, uerr, alive, pc>>

\* i = usucc, the operand the named Unit-success (an lvalue): the same
\* operator=(Either<SuccessType, void> const& that), which reads that.Success()
AssignFromUnitSuccess(i) ==
  /\ pc = "run" /\ alive[i] /\ usucc.alive
  /\ LET s == UnitSuccess_Success(usucc).val
     IN  /\ obj' = [obj EXCEPT ![i] = AssignUnitSuccessCopy(obj[i], s, kind)]
         /\ last' = [Wrote(Op("AssignSuccessCopy", i, 0, FALSE, s, "usucc", obj[i].state_),
                           "assign", obj[i].succ_obj, obj[i].state_ = kHasSuccess)
                     EXCEPT !.lost = (kind = "nontrivial" /\ obj[i].err_obj)]
  /\ consumed' = [consumed EXCEPT ![i] = FALSE]
  /\ UNCHANGED <<kind, usucc, uerr, alive, pc>>

\* i = et::Success(s), the operand an rvalue Unit-success.  The object ends
\* tagged kHasError with succ_val_ written: g is what err_val_ then reads.
AssignSuccessMove(i, s, g) ==
  /\ pc = "run" /\ alive[i]
  /\ obj' = [obj EXCEPT ![i] = AssignUnitSuccessMove(obj[i], s, g, kind)]
  /\ consumed' = [consumed EXCEPT ![i] = FALSE]
  /\ last' = [Wrote(Op("AssignSuccessMove", i, 0, FALSE, s, "none", obj[i].state_),
                    "assign", obj[i].succ_obj, obj[i].state_ = kHasSuccess)
              EXCEPT !.lost = (kind = "nontrivial" /\ obj[i].err_obj)]
  /\ UNCHANGED <<kind, usucc, uerr, alive, pc>>

\* i = u or i = et::Error(e), the operand a Unit-error holding e (trivial payloads only:
\* with class payloads the implicit move assignment it needs is deleted)
AssignError(i, e) ==
  /\ pc = "run" /\ kind = "trivial" /\ alive[i]
  /\ obj' = [obj EXCEPT ![i] = AssignUnitError(obj[i], e)]
  /\ consumed' = [consumed EXCEPT ![i] = FALSE]
  /\ last' = Wrote(Op("AssignError", i, 0, FALSE, e, "none", obj[i].state_),
                   "bytes", FALSE, FALSE)
  /\ UNCHANGED <<kind, usucc, uerr, alive, pc>>

\* i.IsSuccess()
CallIsSuccess(i) ==
  /\ pc = "run" /\ alive[i]
  /\ last' = Op("IsSuccess", i, 0, FALSE, 0, BoolStr(IsSuccess(obj[i])), obj[i].state_)
  /\ UNCHANGED <<kind, usucc, uerr, alive, obj, consumed, pc>>

\* i.IsError()
CallIsError(i) ==
  /\ pc = "run" /\ alive[i]
  /\ last' = Op("IsError", i, 0, FALSE, 0, BoolStr(IsError(obj[i])), obj[i].state_)
  /\ UNCHANGED <<kind, usucc, uerr, alive, obj, consumed, pc>>

\* static_cast<bool>(i)
CallOperatorBool(i) ==
  /\ pc = "run" /\ alive[i]
  /\ last' = Op("OperatorBool", i, 0, FALSE, 0, BoolStr(OperatorBool(obj[i])), obj[i].state_)
  /\ UNCHANGED <<kind, usucc, uerr, alive, obj, consumed, pc>>

\* i.Success(), i an lvalue; the caller catches BadEitherAccess
CallSuccessConstRef(i) ==
  /\ pc = "run" /\ alive[i]
  /\ LET r == SuccessConstRef(obj[i])
     IN  last' = Op("SuccessConstRef", i, 0, r.raised, r.val, "none", "none")
  /\ UNCHANGED <<kind, usucc, uerr, alive, obj, consumed, pc>>

\* i.Error(), i an lvalue
CallErrorConstRef(i) ==
  /\ pc = "run" /\ alive[i]
  /\ LET r == ErrorConstRef(obj[i])
     IN  last' = Op("ErrorConstRef", i, 0, r.raised, r.val, "none", "none")
  /\ UNCHANGED <<kind, usucc, uerr, alive, obj, consumed, pc>>

\* std::move(i).Success()
CallSuccessRvalue(i) ==
  /\ pc = "run" /\ alive[i]
  /\ LET r == SuccessRvalue(obj[i])
     IN  /\ obj' = [obj EXCEPT ![i] = r.self]
         /\ consumed' = [consumed EXCEPT ![i] = (consumed[i] \/ ~r.raised)]
         /\ last' = Op("SuccessRvalue", i, 0, r.raised, r.val, "none", "none")
  /\ UNCHANGED <<kind, usucc, uerr, alive, pc>>

\* std::move(i).Error()
CallErrorRvalue(i) ==
  /\ pc = "run" /\ alive[i]
  /\ LET r == ErrorRvalue(obj[i])
     IN  /\ obj' = [obj EXCEPT ![i] = r.self]
         /\ consumed' = [consumed EXCEPT ![i] = (consumed[i] \/ ~r.raised)]
         /\ last' = Op("ErrorRvalue", i, 0, r.raised, r.val, "none", "none")
  /\ UNCHANGED <<kind, usucc, uerr, alive, pc>>

\* i == j; std::terminate ends the program
CallOpEq(i, j) ==
  /\ pc = "run" /\ alive[i] /\ alive[j]
  /\ LET r == OpEq(obj[i], obj[j])
     IN  /\ last' = Op("OpEq", i, j, FALSE, 0, r, "none")
         /\ pc' = IF r = "terminate" THEN "terminated" ELSE pc
  /\ UNCHANGED <<kind, usucc, uerr, alive, obj, consumed>>

\* i != j
CallOpNe(i, j) ==
  /\ pc = "run" /\ alive[i] /\ alive[j]
  /\ LET r == OpNe(obj[i], obj[j])
     IN  /\ last' = Op("OpNe", i, j, FALSE, 0, r, "none")
         /\ pc' = IF r = "terminate" THEN "terminated" ELSE pc
  /\ UNCHANGED <<kind, usucc, uerr, alive, obj, consumed>>

\* The member whose destructor runs when an Either is destroyed:
\* Storage<S, E, true> has no destructor, Storage<S, E, false> runs ~Storage().
EitherDtor(self, k) == IF k = "trivial" THEN "none" ELSE StorageDtor(self)

\* i goes out of scope
Destroy(i) ==
  /\ pc = "run" /\ alive[i]
  /\ LET d == EitherDtor(obj[i], kind)
     IN  last' = [Op("Destroy", i, 0, FALSE, 0, d, obj[i].state_) EXCEPT
                    !.noobj = \/ (d = "succ_val_" /\ ~obj[i].succ_obj)
                              \/ (d = "err_val_" /\ ~obj[i].err_obj),
                    !.lost = \/ (kind = "nontrivial" /\ obj[i].succ_obj /\ d # "succ_val_")
                             \/ (kind = "nontrivial" /\ obj[i].err_obj /\ d # "err_val_")]
  /\ alive' = [alive EXCEPT ![i] = FALSE]
  /\ obj' = [obj EXCEPT ![i] = NoStorage]
  /\ consumed' = [consumed EXCEPT ![i] = FALSE]
  /\ UNCHANGED <<kind, usucc, uerr, pc>>

\* ------------------------------------------------------------------------
\* The program with Unit forms: a named Unit-success, a named Unit-error,
\* temporaries they are compared with, and the Either they are widened into
\* ------------------------------------------------------------------------

\* auto usucc = et::Success(s)
MakeSuccess(s) ==
  /\ pc = "run" /\ ~usucc.alive
  /\ usucc' = UnitSuccessCtor(s)
  /\ last' = Op("MakeSuccess", 0, 0, FALSE, s, "none", "none")
  /\ UNCHANGED <<kind, uerr, alive, obj, consumed, pc>>

\* auto uerr = et::Error(e)
MakeError(e) ==
  /\ pc = "run" /\ ~uerr.alive
  /\ uerr' = UnitErrorCtor(e)
  /\ last' = Op("MakeError", 0, 0, FALSE, e, "none", "none")
  /\ UNCHANGED <<kind, usucc, alive, obj, consumed, pc>>

\* usucc goes out of scope
DestroyUnitSuccess ==
  /\ pc = "run" /\ usucc.alive
  /\ usucc' = NoUnitSuccess
  /\ last' = Op("DestroyUnitSuccess", 0, 0, FALSE, 0, "none", "none")
  /\ UNCHANGED <<kind, uerr, alive, obj, consumed, pc>>

\* uerr goes out of scope
DestroyUnitError ==
  /\ pc = "run" /\ uerr.alive
  /\ uerr' = NoUnitError
  /\ last' = Op("DestroyUnitError", 0, 0, FALSE, 0, "none", "none")
  /\ UNCHANGED <<kind, usucc, alive, obj, consumed, pc>>

\* usucc.Success() (ref = "const&") or std::move(usucc).Success() (ref = "&&").
\* Through the rvalue reference the caller may move a class payload out: the
\* payload usucc keeps is then a valid value the library does not specify (g).
CallUnitSuccess_Success(ref, taken, g) ==
  /\ pc = "run" /\ usucc.alive
  /\ LET r == UnitSuccess_Success(usucc)
     IN  last' = Op("UnitSuccess_Success", 0, 0, r.raised, r.val, ref, "none")
  /\ usucc' = IF ref = "&&" /\ kind = "nontrivial" /\ taken
              THEN [usucc EXCEPT !.succ_val_ = g] ELSE usucc
  /\ UNCHANGED <<kind, uerr, alive, obj, consumed, pc>>

\* usucc.Error(); the caller catches BadEitherAccess
CallUnitSuccess_Error ==
  /\ pc = "run" /\ usucc.alive
  /\ LET r == UnitSuccess_Error(usucc)
     IN  last' = Op("UnitSuccess_Error", 0, 0, r.raised, r.val, "none", "none")
  /\ UNCHANGED <<kind, usucc, uerr, alive, obj, consumed, pc>>

\* uerr.Success(); the caller catches BadEitherAccess
CallUnitError_Success ==
  /\ pc = "run" /\ uerr.alive
  /\ LET r == UnitError_Success(uerr)
     IN  last' = Op("UnitError_Success", 0, 0, r.raised, r.val, "none", "none")
  /\ UNCHANGED <<kind, usucc, uerr, alive, obj, consumed, pc>>

\* uerr.Error() or std::move(uerr).Error()
CallUnitError_Error(ref, taken, g) ==
  /\ pc = "run" /\ uerr.alive
  /\ LET r == UnitError_Error(uerr)
     IN  last' = Op("UnitError_Error", 0, 0, r.raised, r.val, ref, "none")
  /\ uerr' = IF ref = "&&" /\ kind = "nontrivial" /\ taken
             THEN [uerr EXCEPT !.err_val_ = g] ELSE uerr
  /\ UNCHANGED <<kind, usucc, alive, obj, consumed, pc>>

\* usucc == et::Success(s)
CallUnitSuccessOpEq(s) ==
  /\ pc = "run" /\ usucc.alive
  /\ last' = Op("UnitSuccessOpEq", 0, 0, FALSE, s,
                BoolStr(UnitSuccess_OpEq(usucc, UnitSuccessCtor(s))), "none")
  /\ UNCHANGED <<kind, usucc, uerr, alive, obj, consumed, pc>>

\* uerr == et::Error(e)
CallUnitErrorOpEq(e) ==
  /\ pc = "run" /\ uerr.alive
  /\ last' = Op("UnitErrorOpEq", 0, 0, FALSE, e,
                BoolStr(UnitError_OpEq(uerr, UnitErrorCtor(e))), "none")
  /\ UNCHANGED <<kind, usucc, uerr, alive, obj, consumed, pc>>

\* usucc == uerr (order = "SE") or uerr == usucc (order = "ES")
CallUnitMixedOpEq(order) ==
  /\ pc = "run" /\ usucc.alive /\ uerr.alive
  /\ last' = Op("UnitMixedOpEq", 0, 0, FALSE, 0,
                BoolStr(IF order = "SE" THEN UnitMixed_OpEq(usucc, uerr)
                                        ELSE UnitMixedReversed_OpEq(uerr, usucc)),
                order)
  /\ UNCHANGED <<kind, usucc, uerr, alive, obj, consumed, pc>>

\* Either<S, E> i(usucc) or Either<S, E> i(std::move(usucc)): the const& form
\* reads usucc, the && form copies it into a temporary first; neither writes it.
WidenFromUnitSuccess(i) ==
  /\ pc = "run" /\ ~alive[i] /\ usucc.alive
  /\ alive' = [alive EXCEPT ![i] = TRUE]
  /\ obj' = [obj EXCEPT ![i] = EitherFromUnitSuccess(UnitSuccess_Success(usucc).val)]
  /\ last' = Wrote(Op("WidenFromUnitSuccess", i, 0, FALSE, usucc.succ_val_, "none", "none"),
                   "construct", FALSE, FALSE)
  /\ UNCHANGED <<kind, usucc, uerr, consumed, pc>>

\* Either<S, E> i(uerr) or Either<S, E> i(std::move(uerr))
WidenFromUnitError(i) ==
  /\ pc = "run" /\ ~alive[i] /\ uerr.alive
  /\ alive' = [alive EXCEPT ![i] = TRUE]
  /\ obj' = [obj EXCEPT ![i] = EitherFromUnitError(UnitError_Error(uerr).val)]
  /\ last' = Wrote(Op("WidenFromUnitError", i, 0, FALSE, uerr.err_val_, "none", "none"),
                   "construct", FALSE, FALSE)
  /\ UNCHANGED <<kind, usucc, uerr, consumed, pc>>

Refs == {"const&", "&&"}

UnitNext ==
  \/ \E s \in Values : MakeSuccess(s)
  \/ \E e \in Values : MakeError(e)
  \/ DestroyUnitSuccess
  \/ DestroyUnitError
  \/ \E ref \in Refs, taken \in BOOLEAN, g \in Values : CallUnitSuccess_Success(ref, taken, g)
  \/ CallUnitSuccess_Error
  \/ CallUnitError_Success
  \/ \E ref \in Refs, taken \in BOOLEAN, g \in Values : CallUnitError_Error(ref, taken, g)
  \/ \E s \in Values : CallUnitSuccessOpEq(s)
  \/ \E e \in Values : CallUnitErrorOpEq(e)
  \/ \E order \in {"SE", "ES"} : CallUnitMixedOpEq(order)
  \/ \E i \in {1} : WidenFromUnitSuccess(i)
  \/ \E i \in {1} : WidenFromUnitError(i)
  \/ \E i \in {1} : CallSuccessRvalue(i)
  \/ \E i \in {1} : CallErrorRvalue(i)
  \/ \E i \in {1} : Destroy(i)

UnitSpec == Init /\ [][UnitNext]_vars

Next ==
  \/ \E i \in Inst, s \in Values : WidenSuccess(i, s)
  \/ \E i \in Inst, e \in Values : WidenError(i, e)
  \/ \E i \in Inst, j \in Inst : CopyCtor(i, j)
  \/ \E i \in Inst, j \in Inst : MoveCtor(i, j)
  \/ \E i \in Inst, j \in Inst : CopyAssign(i, j)
  \/ \E i \in Inst, j \in Inst : MoveAssign(i, j)
  \/ \E i \in Inst, s \in Values : AssignSuccessCopy(i, s)
  \/ \E i \in Inst, s \in Values, g \in Values : AssignSuccessMove(i, s, g)
  \/ \E i \in Inst, e \in Values : AssignError(i, e)
  \/ \E i \in Inst : CallSuccessConstRef(i)
  \/ \E i \in Inst : CallErrorConstRef(i)
  \/ \E i \in Inst : CallSuccessRvalue(i)
  \/ \E i \in Inst : CallErrorRvalue(i)
  \/ \E i \in Inst, j \in Inst : CallOpEq(i, j)
  \/ \E i \in Inst, j \in Inst : CallOpNe(i, j)
  \/ \E i \in Inst : CallStreamInsert(i)
  \/ \E i \in Inst : CallIsSuccess(i)
  \/ \E i \in Inst : CallIsError(i)
  \/ \E i \in Inst : CallOperatorBool(i)
  \/ \E s \in Values : MakeSuccess(s)
  \/ DestroyUnitSuccess
  \/ \E i \in Inst : AssignFromUnitSuccess(i)
  \/ \E i \in Inst : Destroy(i)

Spec == Init /\ [][Next]_vars

TypeOK ==
  /\ kind \in Kinds
  /\ alive \in [Inst -> BOOLEAN]
  /\ obj \in [Inst -> StorageRec]
  /\ consumed \in [Inst -> BOOLEAN]
  /\ usucc \in UnitSuccessRec /\ uerr \in UnitErrorRec
  /\ pc \in {"run", "terminated"}

\* The member the discriminant names always holds a value: no accessor,
\* comparison or copy ever observes an indeterminate member.
TagNamesValue ==
  \A i \in Inst : (alive[i] /\ obj[i].state_ # kEmpty) => LivePayload(obj[i]) \in Values

\* ------------------------------------------------------------------------
\* Properties
\* ------------------------------------------------------------------------
Live(i) == alive[i]

\* C1: an Either built by a conversion constructor from a Unit-success holding s
\* reports IsSuccess, not IsError, Success() returns s and Error() raises
\* BadEitherAccess; built from a Unit-error holding e it reports IsError, not
\* IsSuccess, Error() returns e and Success() raises.
C1_WideningRoundTrip ==
  /\ last.op = "WidenSuccess" =>
       LET e == obj[last.dst]
       IN  /\ IsSuccess(e) /\ ~IsError(e)
           /\ SuccessConstRef(e) = Returned(last.val)
           /\ ErrorConstRef(e).raised
  /\ last.op = "WidenError" =>
       LET e == obj[last.dst]
       IN  /\ IsError(e) /\ ~IsSuccess(e)
           /\ ErrorConstRef(e) = Returned(last.val)
           /\ SuccessConstRef(e).raised

C1_Witness ==
  /\ last.op = "WidenSuccess" /\ last.val = MaxVal
  /\ Live(last.dst) /\ obj[last.dst].succ_val_ = MaxVal

\* C2: in every reachable state Success() const& raises exactly when the
\* discriminant is not kHasSuccess and otherwise returns succ_val_; Error() const&
\* raises exactly when it is not kHasError and otherwise returns err_val_; the
\* call itself reports the failure and leaves the object as it was.
C2_AccessorsGuarded ==
  /\ \A i \in Inst : Live(i) =>
       LET e == obj[i]
           rs == SuccessConstRef(e)
           re == ErrorConstRef(e)
       IN  /\ rs.raised <=> e.state_ \in {kHasError, kEmpty}
           /\ ~rs.raised => rs.val = e.succ_val_
           /\ re.raised <=> e.state_ \in {kHasSuccess, kEmpty}
           /\ ~re.raised => re.val = e.err_val_
  /\ last.op = "SuccessConstRef" =>
       /\ last.raised <=> obj[last.dst].state_ # kHasSuccess
       /\ ~last.raised => last.val = obj[last.dst].succ_val_
  /\ last.op = "ErrorConstRef" =>
       /\ last.raised <=> obj[last.dst].state_ # kHasError
       /\ ~last.raised => last.val = obj[last.dst].err_val_

C2_Witness ==
  /\ last.op = "SuccessConstRef" /\ last.raised
  /\ obj[last.dst].state_ = kEmpty /\ Live(last.dst)

\* C3: after a move construction or move assignment b <- a, with a holding a
\* success or an error, b has the discriminant and payload a had and a is kEmpty
\* (neither IsSuccess nor IsError).
C3_MoveTransfer ==
  (/\ last.op \in {"MoveCtor", "MoveAssign"}
   /\ last.dst # last.src
   /\ last.pre \in {kHasSuccess, kHasError}) =>
      /\ obj[last.dst].state_ = last.pre
      /\ LivePayload(obj[last.dst]) = last.val
      /\ ~IsSuccess(obj[last.src]) /\ ~IsError(obj[last.src])

\* C4: after a copy construction or copy assignment b <- a, b has the
\* discriminant of a and a payload equal to a's live payload, and a keeps its
\* discriminant and payload.
C4_CopyTransfer ==
  last.op \in {"CopyCtor", "CopyAssign"} =>
      /\ obj[last.dst].state_ = last.pre
      /\ LivePayload(obj[last.dst]) = last.val
      /\ obj[last.src].state_ = last.pre
      /\ LivePayload(obj[last.src]) = last.val

C4_Witness ==
  /\ last.op = "CopyAssign" /\ last.dst # last.src
  /\ last.pre = kHasError /\ last.val = MaxVal
  /\ obj[last.dst].err_val_ = MaxVal

\* C5: Success() && on an object holding a success returns the payload and
\* leaves the object kEmpty, Error() && likewise on an object holding an error;
\* as long as the object is not reassigned every accessor on it raises
\* BadEitherAccess.
C5_DestructiveRead ==
  /\ \A i \in Inst : (Live(i) /\ obj[i].state_ = kHasSuccess) =>
       LET r == SuccessRvalue(obj[i])
       IN  /\ ~r.raised /\ r.val = obj[i].succ_val_
           /\ r.self.state_ = kEmpty
           /\ SuccessConstRef(r.self).raised /\ ErrorConstRef(r.self).raised
  /\ \A i \in Inst : (Live(i) /\ obj[i].state_ = kHasError) =>
       LET r == ErrorRvalue(obj[i])
       IN  /\ ~r.raised /\ r.val = obj[i].err_val_
           /\ r.self.state_ = kEmpty
           /\ SuccessConstRef(r.self).raised /\ ErrorConstRef(r.self).raised
  /\ \A i \in Inst : consumed[i] =>
       /\ Live(i) /\ obj[i].state_ = kEmpty
       /\ SuccessConstRef(obj[i]).raised /\ ErrorConstRef(obj[i]).raised
       /\ SuccessRvalue(obj[i]).raised /\ ErrorRvalue(obj[i]).raised
  /\ (last.op \in {"SuccessRvalue", "ErrorRvalue"} /\ ~last.raised) =>
       consumed[last.dst]
  /\ (last.op \in {"SuccessConstRef", "ErrorConstRef", "SuccessRvalue", "ErrorRvalue"}
      /\ consumed[last.dst] /\ last.raised) => obj[last.dst].state_ = kEmpty

\* a second destructive read, refused, on an object consumed earlier
C5_Witness ==
  /\ last.op = "SuccessRvalue" /\ last.raised
  /\ consumed[last.dst] /\ obj[last.dst].state_ = kEmpty

\* C6: IsSuccess() is true iff the discriminant is kHasSuccess, IsError() iff it
\* is kHasError; never both; both false exactly when it is kEmpty.
C6_QueriesReflectTag ==
  \A i \in Inst : Live(i) =>
    LET e == obj[i]
    IN  /\ IsSuccess(e) <=> e.state_ = kHasSuccess
        /\ IsError(e) <=> e.state_ = kHasError
        /\ ~(IsSuccess(e) /\ IsError(e))
        /\ (~IsSuccess(e) /\ ~IsError(e)) <=> e.state_ = kEmpty

C6_Witness ==
  \E i \in Inst : Live(i) /\ obj[i].state_ = kEmpty /\ ~IsSuccess(obj[i]) /\ ~IsError(obj[i])

\* C7: lhs == rhs yields true iff both hold a success with equal payloads or both
\* hold an error with equal payloads; a success and an error compare false; and
\* lhs != rhs yields true exactly when lhs == rhs yields false, false exactly
\* when it yields true.
SameStateEqualPayload(l, r) ==
  \/ l.state_ = kHasSuccess /\ r.state_ = kHasSuccess /\ l.succ_val_ = r.succ_val_
  \/ l.state_ = kHasError /\ r.state_ = kHasError /\ l.err_val_ = r.err_val_

C7_Equality ==
  /\ \A i \in Inst, j \in Inst : (Live(i) /\ Live(j)) =>
       LET l == obj[i]
           r == obj[j]
       IN  /\ OpEq(l, r) = "true" <=> SameStateEqualPayload(l, r)
           /\ ({l.state_, r.state_} = {kHasSuccess, kHasError}) => OpEq(l, r) = "false"
           /\ OpNe(l, r) = "true" <=> OpEq(l, r) = "false"
           /\ OpNe(l, r) = "false" <=> OpEq(l, r) = "true"
  /\ last.op = "OpEq" =>
       (last.out = "true" <=> SameStateEqualPayload(obj[last.dst], obj[last.src]))
  /\ last.op = "OpNe" =>
       (last.out = "false" <=> SameStateEqualPayload(obj[last.dst], obj[last.src]))

C7_Witness ==
  /\ last.op = "OpEq" /\ last.out = "true" /\ last.dst # last.src
  /\ obj[last.dst].state_ = kHasError /\ obj[last.src].state_ = kHasError

\* The operation recorded in l emptied object i: a destructive read of i that
\* returned, or a move with i as its source.
ReadOrMovedFrom(l, i) ==
  \/ l.op \in {"SuccessRvalue", "ErrorRvalue"} /\ l.dst = i /\ ~l.raised
  \/ l.op \in {"MoveCtor", "MoveAssign"} /\ l.src = i

\* The operation recorded in l made i a copy of (or moved into i) an object
\* that was kEmpty.
TransferFromEmpty(l, i) ==
  /\ l.op \in {"CopyCtor", "MoveCtor", "CopyAssign", "MoveAssign"}
  /\ l.dst = i /\ l.pre = kEmpty

BecomesEmpty(i) ==
  /\ alive'[i] /\ obj'[i].state_ = kEmpty
  /\ ~(alive[i] /\ obj[i].state_ = kEmpty)

\* C8 as stated: an object becomes kEmpty only by a destructive read on it or by
\* being the source of a move; no copy or converting assignment leaves an
\* object kEmpty.
C8_EmptyOnlyByReadOrMove ==
  [][\A i \in Inst : BecomesEmpty(i) => ReadOrMovedFrom(last', i)]_vars

\* C8 amended: an object becomes kEmpty only by a destructive read on it, by
\* being the source of a move, or by being copy/move constructed or assigned
\* from a source that is itself kEmpty.
C8_EmptyOnlyByReadMoveOrEmptySource ==
  [][\A i \in Inst :
       BecomesEmpty(i) => (ReadOrMovedFrom(last', i) \/ TransferFromEmpty(last', i))]_vars

\* a converting assignment has just refilled an object that had been emptied
C8_Witness ==
  /\ last.op = "AssignSuccessMove"
  /\ \E j \in Inst : j # last.dst /\ Live(j) /\ obj[j].state_ = kEmpty
  /\ obj[last.dst].state_ # kEmpty

\* C9: with class payloads every payload constructed in a Storage member is
\* destructed exactly once: no operation overwrites or releases the bytes of a
\* constructed payload whose destructor has not run (it could never run
\* afterwards), and no destructor runs on a member holding no constructed payload.
C9_ExactlyOnceDestruction ==
  kind = "nontrivial" => (~last.lost /\ ~last.noobj)

\* C10: ~Storage() runs the destructor of succ_val_ when the discriminant is
\* kHasSuccess, of err_val_ when it is kHasError, and none when it is kEmpty (so
\* none for a moved-from or destructively read object).
DtorOf(tag) ==
  IF tag = kHasSuccess THEN "succ_val_" ELSE IF tag = kHasError THEN "err_val_" ELSE "none"

C10_DtorFollowsTag ==
  /\ \A i \in Inst : (Live(i) /\ kind = "nontrivial") =>
       /\ EitherDtor(obj[i], kind) = DtorOf(obj[i].state_)
       /\ consumed[i] => EitherDtor(obj[i], kind) = "none"
  /\ (last.op = "Destroy" /\ kind = "nontrivial") => last.out = DtorOf(last.pre)

C10_Witness ==
  /\ last.op = "Destroy" /\ kind = "nontrivial"
  /\ last.pre = kEmpty /\ last.out = "none"

\* C11: on a Unit-success Error() always raises BadEitherAccess and Success()
\* always returns the held value without raising; on a Unit-error Success()
\* always raises and Error() always returns the held value without raising.
\* The held value is the one the Unit form holds when the call is made.
C11_UnitRefusesAbsentSide ==
  /\ [](/\ usucc.alive =>
             /\ UnitSuccess_Error(usucc).raised
             /\ UnitSuccess_Success(usucc) = Returned(usucc.succ_val_)
        /\ uerr.alive =>
             /\ UnitError_Success(uerr).raised
             /\ UnitError_Error(uerr) = Returned(uerr.err_val_))
  /\ [][/\ last'.op = "UnitSuccess_Error" => last'.raised
        /\ last'.op = "UnitError_Success" => last'.raised
        /\ last'.op = "UnitSuccess_Success" =>
             (~last'.raised /\ last'.val = usucc.succ_val_)
        /\ last'.op = "UnitError_Error" =>
             (~last'.raised /\ last'.val = uerr.err_val_)]_vars

C11_Witness ==
  /\ last.op = "UnitError_Success" /\ last.raised
  /\ uerr.alive /\ uerr.err_val_ = MaxVal

\* C12: a Unit-success reports IsSuccess() and not IsError(), a Unit-error
\* IsError() and not IsSuccess(), in every reachable state: also after its
\* rvalue accessor was called (and the payload moved out) and after it was the
\* source of a widening conversion.
C12_UnitNeverEmpty ==
  /\ usucc.alive => (UnitSuccess_IsSuccess(usucc) /\ ~UnitSuccess_IsError(usucc))
  /\ uerr.alive => (UnitError_IsError(uerr) /\ ~UnitError_IsSuccess(uerr))

\* a class payload has just been moved out of the Unit-success
C12_Witness ==
  /\ last.op = "UnitSuccess_Success" /\ last.out = "&&" /\ kind = "nontrivial"
  /\ usucc.alive /\ usucc.succ_val_ # last.val
  /\ UnitSuccess_IsSuccess(usucc)

\* C13: the boolean conversion equals IsSuccess(): for a two-sided Either it is
\* true when the discriminant is kHasSuccess and false when it is kHasError or
\* kEmpty; it is always true for a Unit-success and always false for a Unit-error.
C13_BoolIsIsSuccess ==
  /\ \A i \in Inst : Live(i) =>
       /\ OperatorBool(obj[i]) <=> IsSuccess(obj[i])
       /\ OperatorBool(obj[i]) <=> obj[i].state_ = kHasSuccess
       /\ obj[i].state_ \in {kHasError, kEmpty} => ~OperatorBool(obj[i])
  /\ usucc.alive =>
       /\ UnitSuccess_OperatorBool(usucc)
       /\ UnitSuccess_OperatorBool(usucc) <=> UnitSuccess_IsSuccess(usucc)
  /\ uerr.alive =>
       /\ ~UnitError_OperatorBool(uerr)
       /\ UnitError_OperatorBool(uerr) <=> UnitError_IsSuccess(uerr)

C13_Witness ==
  /\ \E i \in Inst : Live(i) /\ obj[i].state_ = kEmpty /\ ~OperatorBool(obj[i])
  /\ usucc.alive /\ uerr.alive /\ ~UnitError_OperatorBool(uerr)

\* C14: streaming an Either whose discriminant is kHasSuccess emits exactly the
\* text of succ_val_, one whose discriminant is kHasError exactly the text of
\* err_val_; the elements of {Success(312), Error('v'), Success(420)}, copied
\* into a vector of Either<int32, char>, keep tag and payload, element 0 renders
\* "312" (characters 51 49 50) and element 1 renders "v" (character 118).
ExampleVec ==
  <<StorageImplicitCopy(EitherFromUnitSuccess(312)),
    StorageImplicitCopy(EitherFromUnitError(118)),
    StorageImplicitCopy(EitherFromUnitSuccess(420))>>

C14_Rendering ==
  /\ \A i \in Inst : Live(i) =>
       /\ obj[i].state_ = kHasSuccess =>
            StreamInsert(obj[i]) = Emitted(PrintInt(obj[i].succ_val_))
       /\ obj[i].state_ = kHasError =>
            StreamInsert(obj[i]) = Emitted(PrintChar(obj[i].err_val_))
  /\ (last.op = "StreamInsert" /\ last.pre = kHasSuccess) =>
       (~last.raised /\ last.text = PrintInt(obj[last.dst].succ_val_))
  /\ (last.op = "StreamInsert" /\ last.pre = kHasError) =>
       (~last.raised /\ last.text = PrintChar(obj[last.dst].err_val_))
  /\ ExampleVec[1].state_ = kHasSuccess /\ ExampleVec[1].succ_val_ = 312
  /\ ExampleVec[2].state_ = kHasError /\ ExampleVec[2].err_val_ = 118
  /\ ExampleVec[3].state_ = kHasSuccess /\ ExampleVec[3].succ_val_ = 420
  /\ StreamInsert(ExampleVec[1]) = Emitted(<<51, 49, 50>>)
  /\ StreamInsert(ExampleVec[2]) = Emitted(<<118>>)

C14_Witness ==
  /\ last.op = "StreamInsert" /\ last.pre = kHasError /\ ~last.raised
  /\ Live(last.dst) /\ obj[last.dst].err_val_ = MaxVal
  /\ last.text = <<MaxVal>>

\* C15: a converting assignment that would merge an incompatible state (a
\* Unit-success assigned to an Either holding an error, a Unit-error assigned to
\* an Either holding a success) raises BadEitherAssign.
C15_InvalidReassignRaises ==
  (\/ last.op \in {"AssignSuccessCopy", "AssignSuccessMove"} /\ last.pre = kHasError
   \/ last.op = "AssignError" /\ last.pre = kHasSuccess) => last.raised

\* The step takes object i out of kEmpty.
LeavesEmpty(i) ==
  /\ alive[i] /\ obj[i].state_ = kEmpty
  /\ alive'[i] /\ obj'[i].state_ # kEmpty

\* The operation recorded in l copy- or move-assigned to i an Either holding a
\* success or an error.
AssignedFromLive(l, i) ==
  /\ l.op \in {"CopyAssign", "MoveAssign"} /\ l.dst = i
  /\ l.pre \in {kHasSuccess, kHasError}

\* The operation recorded in l assigned a Unit form to i.
AssignedFromUnit(l, i) ==
  /\ l.op \in {"AssignSuccessCopy", "AssignSuccessMove", "AssignError"} /\ l.dst = i

\* C16 as stated: a kEmpty Either becomes kHasSuccess or kHasError only through
\* copy or move assignment from an Either that holds a success or an error; no
\* accessor, query, comparison, rendering or assignment from a Unit form takes
\* it out of kEmpty.
C16_EmptyLeftOnlyByAssignFromEither ==
  [][\A i \in Inst : LeavesEmpty(i) => AssignedFromLive(last', i)]_vars

\* C16 amended: a kEmpty Either becomes kHasSuccess or kHasError only through
\* copy or move assignment from an Either that holds a success or an error, or
\* through a converting assignment from a Unit form.
C16_EmptyLeftOnlyByAssign ==
  [][\A i \in Inst :
       LeavesEmpty(i) => (AssignedFromLive(last', i) \/ AssignedFromUnit(last', i))]_vars

\* a kEmpty object has just been refilled by a converting assignment
C16_Witness ==
  /\ last.op = "AssignSuccessCopy" /\ last.pre = kEmpty
  /\ Live(last.dst) /\ obj[last.dst].state_ = kHasSuccess

\* C17: after e = u with u a Unit-success holding s, in the copy form and in
\* the move form and whatever e held, e.IsSuccess(), not e.IsError() and
\* e.Success() = s; after e = u with u a Unit-error holding x, e.IsError(),
\* not e.IsSuccess() and e.Error() = x.
C17_ConvertingAssignment ==
  /\ last.op \in {"AssignSuccessCopy", "AssignSuccessMove"} =>
       LET e == obj[last.dst]
       IN  /\ IsSuccess(e) /\ ~IsError(e)
           /\ SuccessConstRef(e) = Returned(last.val)
  /\ last.op = "AssignError" =>
       LET e == obj[last.dst]
       IN  /\ IsError(e) /\ ~IsSuccess(e)
           /\ ErrorConstRef(e) = Returned(last.val)

\* C18: operator== returns a boolean for every pair of Either values in any
\* combination of states, without an accessor raising BadEitherAccess inside
\* it; it returns false when exactly one operand is kEmpty and when the
\* operands are in different states.
C18_EqualityNeverRaises ==
  /\ \A i \in Inst, j \in Inst : (Live(i) /\ Live(j)) =>
       /\ OpEq(obj[i], obj[j]) \in {"true", "false"}
       /\ obj[i].state_ # obj[j].state_ => OpEq(obj[i], obj[j]) = "false"
  /\ last.op = "OpEq" => last.out \in {"true", "false"}

\* C19: Error(a) == Error(b) is true iff a = b, Success(a) == Success(b) is
\* true iff a = b, and a Unit-success never equals a Unit-error.
C19_UnitEquality ==
  /\ last.op = "UnitSuccessOpEq" => (last.out = "true" <=> usucc.succ_val_ = last.val)
  /\ last.op = "UnitErrorOpEq" => (last.out = "true" <=> uerr.err_val_ = last.val)
  /\ last.op = "UnitMixedOpEq" => last.out = "false"

\* C20: whenever Success() or Error(), const& or &&, raises BadEitherAccess the
\* discriminant and the payload of the object are the same after the call as
\* before it.
RefusedAccess(l) ==
  /\ l.op \in {"SuccessConstRef", "ErrorConstRef", "SuccessRvalue", "ErrorRvalue"}
  /\ l.raised

C20_RefusedAccessChangesNothing ==
  /\ [](\A i \in Inst : Live(i) =>
          /\ SuccessRvalue(obj[i]).raised => SuccessRvalue(obj[i]).self = obj[i]
          /\ ErrorRvalue(obj[i]).raised => ErrorRvalue(obj[i]).self = obj[i])
  /\ [][RefusedAccess(last') => (obj' = obj /\ alive' = alive)]_vars

\* the rvalue Success() has just been refused on an object holding an error
C20_Witness ==
  /\ last.op = "SuccessRvalue" /\ last.raised
  /\ Live(last.dst) /\ obj[last.dst].state_ = kHasError
  /\ obj[last.dst].err_val_ = MaxVal

\* C21: an operation that puts a payload into a Storage member constructs it
\* when the member holds no constructed payload, and assigns only when the
\* member already holds a constructed payload of the side the discriminant
\* names: no operation assigns into a member that was never constructed, that
\* belongs to the other side, or whose object is kEmpty.
C21_SlotWritesMatchLiveness ==
  /\ last.write = "construct" => ~last.slot
  /\ last.write = "assign" => (last.slot /\ last.tagged)

\* C22: IsSuccess(), IsError(), the boolean conversion, Success()/Error() const&,
\* operator==, operator!= and stream insertion leave the discriminant and the
\* payload of every object unchanged, in every state; copy construction and
\* copy assignment leave their source unchanged, and so does the converting
\* copy assignment from a Unit-success.
NonDestructiveOps ==
  {"IsSuccess", "IsError", "OperatorBool", "SuccessConstRef", "ErrorConstRef",
   "OpEq", "OpNe", "StreamInsert"}

C22_NonDestructiveOpsArePure ==
  [][/\ last'.op \in NonDestructiveOps =>
          (obj' = obj /\ alive' = alive /\ usucc' = usucc /\ uerr' = uerr)
     /\ last'.op \in {"CopyCtor", "CopyAssign"} =>
          (obj'[last'.src] = obj[last'.src] /\ alive'[last'.src] = alive[last'.src])
     /\ (last'.op = "AssignSuccessCopy" /\ last'.out = "usucc") =>
          usucc' = usucc]_vars

\* an Either holding an error has just been assigned the named Unit-success
C22_Witness ==
  /\ last.op = "AssignSuccessCopy" /\ last.out = "usucc" /\ last.pre = kHasError
  /\ usucc.alive /\ usucc.succ_val_ = MaxVal
  /\ Live(last.dst) /\ obj[last.dst].succ_val_ = MaxVal

====
